---- MODULE Spec2Model ----
(***************************************************************************)
(* Model of backend/vrp_solver.py (class VRPSolver) and of the /api/solve  *)
(* handler of backend/app.py.                                              *)
(*                                                                         *)
(* Coordinates are integers in millidegrees; a Python list is a sequence   *)
(* whose 0-based index i is element i + 1.  A float produced by            *)
(* _calculate_distance is represented exactly by its radicand r (the       *)
(* float is sqrt(r) * MetersPerDegree / 1000), so that .astype(int) is a   *)
(* real truncation, computed in exact arithmetic.                          *)
(*                                                                         *)
(* The OR-Tools routing model is represented by its contract only:         *)
(* SolveWithParameters returns None or an assignment of the NextVars that  *)
(* is a single depot-to-depot path through every node and satisfies the    *)
(* constraints that solve() adds (the Distance dimension and the cumul     *)
(* inequality of every pair).                                              *)
(***************************************************************************)
EXTENDS Integers, Sequences, FiniteSets

\* vrp_solver.py:31  "* 111000  # Rough conversion to meters"
MetersPerDegree == 111000
\* vrp_solver.py:48  "if len(self.locations) < 9"
MinLocations == 9
\* vrp_solver.py:70  capacity of the "Distance" dimension
Capacity == 10000

\* Bounds of the model.
MaxPassengers == 5
MaxPairs == 3
MaxN == 3

VARIABLES pc, request, cursor, locations, pickups_deliveries, distance_matrix,
          matrix, solution, index, route, result, response

vars == <<pc, request, cursor, locations, pickups_deliveries, distance_matrix,
          matrix, solution, index, route, result, response>>

solver == <<locations, pickups_deliveries, distance_matrix>>

----------------------------------------------------------------------------
\* Inputs.

Origin == <<0, 0>>

\* The driver coordinates a request may carry.
Drivers == {Origin, <<3, 0>>}

\* The passenger records a request is drawn from, in payload order.  The
\* third has pickup = dropoff, the last lacks its "dropoff" key.
Pool ==
  << [pickup |-> <<5, 5>>,   dropoff |-> <<5, -5>>],
     [pickup |-> <<-5, 5>>,  dropoff |-> <<-5, -5>>],
     [pickup |-> <<10, 0>>,  dropoff |-> <<10, 0>>],
     [pickup |-> <<0, 10>>,  dropoff |-> <<0, -10>>],
     [pickup |-> <<20, 0>>,  dropoff |-> <<25, 0>>],
     [pickup |-> <<-40, 0>>, dropoff |-> <<0, 40>>],
     [pickup |-> <<1, 1>>] >>

RECURSIVE SubSeqs(_)
\* All order-preserving selections of the elements of s.
SubSeqs(s) ==
  IF s = <<>> THEN {<<>>}
  ELSE LET rest == SubSeqs(Tail(s))
       IN  rest \cup {<<Head(s)>> \o t : t \in rest}

PassengerLists == {s \in SubSeqs(Pool) : Len(s) <= MaxPassengers}

\* The JSON bodies of /api/solve; a body without "driver" is also possible.
Requests ==
  [driver : Drivers, passengers : PassengerLists]
    \cup {[passengers |-> s] : s \in {t \in PassengerLists : Len(t) <= 2}}

\* Locations of the distance-matrix check.
Coords == {-7, 0, 1}
Points == Coords \X Coords

\* Locations handed to the solver's methods when they are called directly.
CallPoints == {Origin, <<5, 5>>}

RECURSIVE SeqsUpTo(_, _)
\* All sequences over S of length at most n.
SeqsUpTo(S, n) ==
  IF n = 0 THEN {<<>>}
  ELSE LET shorter == SeqsUpTo(S, n - 1)
       IN  shorter \cup {Append(t, x) : t \in {u \in shorter : Len(u) = n - 1}, x \in S}

----------------------------------------------------------------------------
\* Python list access with 0-based indices.
At(list, i) == list[i + 1]

RECURSIVE ISqrtBetween(_, _, _)
ISqrtBetween(n, lo, hi) ==
  IF lo = hi THEN lo
  ELSE LET mid == (lo + hi + 1) \div 2
       IN  IF mid * mid <= n THEN ISqrtBetween(n, mid, hi)
           ELSE ISqrtBetween(n, lo, mid - 1)

\* floor(sqrt(n)) for 0 <= n < 2^31
ISqrt(n) == ISqrtBetween(n, 0, 46340)

\* _calculate_distance with the second difference not squared.
_calculate_distance_unsquared(point1, point2) ==
  LET lon1 == point1[1]
      lat1 == point1[2]
      lon2 == point2[1]
      lat2 == point2[2]
  IN  (lon2 - lon1) * (lon2 - lon1) + (lat2 - lat1) * lat2

\* vrp_solver.py:26-31; the float result is represented by its radicand.
_calculate_distance(point1, point2) ==
  LET lon1 == point1[1]
      lat1 == point1[2]
      lon2 == point2[1]
      lat2 == point2[2]
  IN  (lon2 - lon1) * (lon2 - lon1) + (lat2 - lat1) * (lat2 - lat1)

\* numpy .astype(int) of the float with radicand r: truncation toward zero
\* of sqrt(r) * 111000 / 1000.
astype_int(r) ==
  ISqrt(r * (MetersPerDegree \div 1000) * (MetersPerDegree \div 1000))

\* vrp_solver.py:35-41: the table stored in self.distance_matrix (row i,
\* column j of the numpy array is At(At(m, i), j)).
FloatMatrix(locs) ==
  LET num_locations == Len(locs)
  IN  [i \in 1 .. num_locations |->
        [j \in 1 .. num_locations |->
          IF i # j THEN _calculate_distance(locs[i], locs[j]) ELSE 0]]

\* vrp_solver.py:43: the list of lists that is returned.
_compute_distance_matrix(locs) ==
  LET m == FloatMatrix(locs)
  IN  [i \in DOMAIN m |-> [j \in DOMAIN m[i] |-> astype_int(m[i][j])]]

----------------------------------------------------------------------------
\* The routing model built by solve(), vrp_solver.py:54-90.

\* RoutingIndexManager(len(distance_matrix), 1, 0): one vehicle, depot 0.
\* Index i < n is node i, index n is the end of the vehicle (node 0).
NumNodes(m) == Len(m)
Start == 0
\* IsEnd taking the last node for the end of the vehicle.
IsEndOffByOne(m, idx) == idx >= NumNodes(m) - 1
IsEnd(m, idx) == idx = NumNodes(m)
IndexToNode(m, idx) == IF idx = NumNodes(m) THEN 0 ELSE idx
NodeToIndex(node) == node

\* vrp_solver.py:58-61
distance_callback(m, from_index, to_index) ==
  LET from_node == IndexToNode(m, from_index)
      to_node == IndexToNode(m, to_index)
  IN  At(At(m, from_node), to_node)

\* vrp_solver.py:87-90: the constraint added for one pair, on the cumuls
\* assigned so far (cum[i + 1] is the cumul of index i, -1 when unassigned).
PairConstraint(cum, pair) ==
  LET pickup_index == NodeToIndex(pair[1])
      delivery_index == NodeToIndex(pair[2])
  IN  (At(cum, pickup_index) >= 0 /\ At(cum, delivery_index) >= 0)
        => At(cum, pickup_index) <= At(cum, delivery_index)

\* The dimension with a capacity one tenth larger.
WithinLargerCapacity(c) == c <= Capacity + Capacity \div 10

\* vrp_solver.py:67-73: cumuls of the "Distance" dimension lie in 0..Capacity.
WithinCapacity(c) == c <= Capacity

RECURSIVE Extend(_, _, _, _)
\* The complete assignments that extend the path whose visited indices are
\* `path` (in order) with cumuls `cum`: each is the sequence of NextVar
\* values, At(next, i) being the successor of index i.  The cumul of a
\* successor is the cumul of its predecessor plus the transit (no slack),
\* the start cumul is 0.
Extend(m, pairs, path, cum) ==
  LET n == NumNodes(m)
      last == path[Len(path)]
  IN  IF Len(path) = n
      THEN IF WithinCapacity(At(cum, last) + distance_callback(m, last, n))
           THEN {[i \in 1 .. n |->
                   LET k == CHOOSE k \in 1 .. n : path[k] = i - 1
                   IN  IF k = n THEN n ELSE path[k + 1]]}
           ELSE {}
      ELSE UNION {
             LET c == At(cum, last) + distance_callback(m, last, v)
                 cum2 == [cum EXCEPT ![v + 1] = c]
             IN  IF WithinCapacity(c)
                    /\ \A q \in 1 .. Len(pairs) : PairConstraint(cum2, pairs[q])
                 THEN Extend(m, pairs, Append(path, v), cum2)
                 ELSE {}
             : v \in {w \in 1 .. n - 1 : At(cum, w) < 0} }

\* Every assignment the routing model admits.
Assignments(m, pairs) ==
  Extend(m, pairs, <<Start>>, [i \in 1 .. NumNodes(m) |-> IF i = 1 THEN 0 ELSE -1])

----------------------------------------------------------------------------
RECURSIVE ScanPairsPickupTwice(_, _)
\* The scan comparing with the pickup index in both tests.
ScanPairsPickupTwice(pairs, idx) ==
  IF pairs = <<>> THEN "unknown"
  ELSE IF idx = Head(pairs)[1] THEN "pickup"
  ELSE IF idx = Head(pairs)[1] THEN "dropoff"
  ELSE ScanPairsPickupTwice(Tail(pairs), idx)

\* vrp_solver.py:134-145
RECURSIVE ScanPairs(_, _)
ScanPairs(pairs, idx) ==
  IF pairs = <<>> THEN "unknown"
  ELSE IF idx = Head(pairs)[1] THEN "pickup"
  ELSE IF idx = Head(pairs)[2] THEN "dropoff"
  ELSE ScanPairs(Tail(pairs), idx)

_get_location_type(pairs, idx) ==
  IF idx = 0 THEN "driver" ELSE ScanPairs(pairs, idx)

----------------------------------------------------------------------------
\* State after VRPSolver() and before any request: vrp_solver.py:6-9.
\* None is the empty sequence for request, distance_matrix, matrix and
\* solution; result and response carry their kind in a field.

NoResult == [kind |-> "pending", route |-> <<>>, locations |-> <<>>]
NoResponse == [status |-> 0, keys |-> {}, error |-> "", route |-> <<>>, locations |-> <<>>]

Init ==
  /\ pc = "idle"
  /\ request = <<>>
  /\ cursor = 0
  /\ locations = <<>>
  /\ pickups_deliveries = <<>>
  /\ distance_matrix = <<>>
  /\ matrix = <<>>
  /\ solution = <<>>
  /\ index = 0
  /\ route = <<>>
  /\ result = NoResult
  /\ response = NoResponse

\* vrp_solver.py:11-13
add_driver_location(location) ==
  locations' = <<location>>

\* vrp_solver.py:15-24
add_passenger(pickup_location, dropoff_location) ==
  LET pickup_index == Len(locations)
      withPickup == Append(locations, pickup_location)
      dropoff_index == Len(withPickup)
  IN  /\ locations' = Append(withPickup, dropoff_location)
      /\ pickups_deliveries' =
           Append(pickups_deliveries, <<pickup_index, dropoff_index>>)

\* app.py:58-60
ServerError == [NoResponse EXCEPT !.status = 500, !.keys = {"error"},
                                  !.error = "Server error"]
\* The failure of the search reported as a server error.
NoSolutionAsServerError == ServerError

\* app.py:57
NoSolutionFound == [NoResponse EXCEPT !.status = 400, !.keys = {"error"},
                                      !.error = "No solution found"]
\* app.py:55
Jsonify(sol) == [NoResponse EXCEPT !.status = 200, !.keys = {"route", "locations"},
                                   !.route = sol.route, !.locations = sol.locations]

\* app.py:37-45: the body is read, the solver is created and given the driver.
SolveVrpBegin ==
  /\ pc = "idle"
  /\ \E data \in Requests :
       LET driver_location ==
             IF "driver" \in DOMAIN data THEN data.driver ELSE Origin
       IN  /\ request' = <<data>>
           /\ add_driver_location(driver_location)
  /\ pickups_deliveries' = <<>>
  /\ distance_matrix' = <<>>
  /\ cursor' = 0
  /\ pc' = "passengers"
  /\ UNCHANGED <<matrix, solution, index, route, result, response>>

\* app.py:48-49, one iteration; a record without both keys raises KeyError,
\* which app.py:58-60 turns into the 500 response.
SolveVrpAddPassenger ==
  /\ pc = "passengers"
  /\ cursor < Len(request[1].passengers)
  /\ LET passenger == At(request[1].passengers, cursor)
     IN  IF {"pickup", "dropoff"} \subseteq DOMAIN passenger
         THEN /\ add_passenger(passenger.pickup, passenger.dropoff)
              /\ cursor' = cursor + 1
              /\ UNCHANGED <<pc, response>>
         ELSE /\ response' = ServerError
              /\ pc' = "done"
              /\ UNCHANGED <<locations, pickups_deliveries, cursor>>
  /\ UNCHANGED <<request, distance_matrix, matrix, solution, index, route, result>>

\* The validation with <= in place of <.
TooFewLocationsInclusive(locs) == Len(locs) <= MinLocations

\* vrp_solver.py:48
TooFewLocations(locs) == Len(locs) < MinLocations

\* app.py:52 calls solve(); vrp_solver.py:48-49 raises ValueError, which
\* app.py:58-60 turns into the 500 response.
SolveRaise ==
  /\ pc = "passengers"
  /\ cursor = Len(request[1].passengers)
  /\ TooFewLocations(locations)
  /\ result' = [NoResult EXCEPT !.kind = "ValueError"]
  /\ response' = ServerError
  /\ pc' = "done"
  /\ UNCHANGED <<request, cursor, solver, matrix, solution, index, route>>

\* vrp_solver.py:48-90: validation passes, the matrix is computed and the
\* routing model is built.
SolveBuildModel ==
  /\ pc = "passengers"
  /\ cursor = Len(request[1].passengers)
  /\ ~TooFewLocations(locations)
  /\ distance_matrix' = FloatMatrix(locations)
  /\ matrix' = _compute_distance_matrix(locations)
  /\ pc' = "search"
  /\ UNCHANGED <<request, cursor, locations, pickups_deliveries, solution,
                 index, route, result, response>>

\* vrp_solver.py:103-110: the search returns None or an assignment; None is
\* returned to app.py:56-57.
SolveWithParameters ==
  /\ pc = "search"
  /\ \/ /\ solution' = <<>>
        /\ result' = [NoResult EXCEPT !.kind = "None"]
        /\ response' = NoSolutionFound
        /\ pc' = "done"
        /\ UNCHANGED <<index, route>>
     \/ /\ \E a \in Assignments(matrix, pickups_deliveries) : solution' = a
        /\ route' = <<>>
        /\ index' = Start
        /\ pc' = "extract"
        /\ UNCHANGED <<result, response>>
  /\ UNCHANGED <<request, cursor, solver, matrix>>

\* vrp_solver.py:111-118, one iteration of the while loop.
ExtractStep ==
  /\ pc = "extract"
  /\ ~IsEnd(matrix, index)
  /\ LET node_index == IndexToNode(matrix, index)
     IN  route' = Append(route,
                    [index |-> node_index,
                     location |-> At(locations, node_index),
                     type |-> _get_location_type(pickups_deliveries, node_index)])
  /\ index' = At(solution, index)
  /\ UNCHANGED <<pc, request, cursor, solver, matrix, solution, result, response>>

\* vrp_solver.py:130-131
LocationListing ==
  [k \in 1 .. Len(locations) |->
    [index |-> k - 1, location |-> locations[k],
     type |-> _get_location_type(pickups_deliveries, k - 1)]]

\* The return without the closing depot entry.
ExtractReturnNoClosing ==
  /\ pc = "extract"
  /\ IsEnd(matrix, index)
  /\ route' = route
  /\ result' = [kind |-> "solution", route |-> route', locations |-> LocationListing]
  /\ response' = Jsonify(result')
  /\ pc' = "done"
  /\ UNCHANGED <<request, cursor, solver, matrix, solution, index>>

\* vrp_solver.py:120-132 and app.py:54-55: the closing depot entry, the
\* returned dictionary and its JSON response.
ExtractReturn ==
  /\ pc = "extract"
  /\ IsEnd(matrix, index)
  /\ LET node_index == IndexToNode(matrix, index)
     IN  route' = Append(route,
                    [index |-> node_index,
                     location |-> At(locations, node_index),
                     type |-> "driver"])
  /\ result' = [kind |-> "solution", route |-> route', locations |-> LocationListing]
  /\ response' = Jsonify(result')
  /\ pc' = "done"
  /\ UNCHANGED <<request, cursor, solver, matrix, solution, index>>

Next ==
  \/ SolveVrpBegin
  \/ SolveVrpAddPassenger
  \/ SolveRaise
  \/ SolveBuildModel
  \/ SolveWithParameters
  \/ ExtractStep
  \/ ExtractReturn

Spec == Init /\ [][Next]_vars

----------------------------------------------------------------------------
\* The methods of one VRPSolver called directly, in any order.

CallAddDriverLocation ==
  /\ pc = "idle"
  /\ \E location \in CallPoints : add_driver_location(location)
  /\ UNCHANGED <<pc, request, cursor, pickups_deliveries, distance_matrix,
                 matrix, solution, index, route, result, response>>

CallAddPassenger ==
  /\ pc = "idle"
  /\ Len(pickups_deliveries) < MaxPairs
  /\ \E pickup_location \in CallPoints, dropoff_location \in CallPoints :
       add_passenger(pickup_location, dropoff_location)
  /\ UNCHANGED <<pc, request, cursor, distance_matrix, matrix, solution,
                 index, route, result, response>>

NextCalls == CallAddDriverLocation \/ CallAddPassenger

SpecCalls == Init /\ [][NextCalls]_vars

----------------------------------------------------------------------------
\* _compute_distance_matrix applied to any list of locations.

InitMatrix ==
  /\ pc = "matrix"
  /\ request = <<>>
  /\ cursor = 0
  /\ locations \in SeqsUpTo(Points, MaxN)
  /\ pickups_deliveries = <<>>
  /\ distance_matrix = <<>>
  /\ matrix = <<>>
  /\ solution = <<>>
  /\ index = 0
  /\ route = <<>>
  /\ result = NoResult
  /\ response = NoResponse

CallComputeDistanceMatrix ==
  /\ pc = "matrix"
  /\ distance_matrix' = FloatMatrix(locations)
  /\ matrix' = _compute_distance_matrix(locations)
  /\ pc' = "matrixdone"
  /\ UNCHANGED <<request, cursor, locations, pickups_deliveries, solution,
                 index, route, result, response>>

NextMatrix == CallComputeDistanceMatrix

SpecMatrix == InitMatrix /\ [][NextMatrix]_vars

----------------------------------------------------------------------------
\* Properties.

Returned == result.kind = "solution"

\* The indices of the returned route, in visiting order.
RouteIndices == [k \in 1 .. Len(result.route) |-> result.route[k].index]

\* solve() has been called by the handler and has returned or raised.
SolveCalled == pc = "done" /\ result.kind # "pending"

RECURSIVE SumLegs(_, _)
\* Total of the matrix entries over the consecutive stops of r from k on.
SumLegs(r, k) ==
  IF k >= Len(r) THEN 0
  ELSE At(At(matrix, r[k]), r[k + 1]) + SumLegs(r, k + 1)

RouteDistance == SumLegs(RouteIndices, 1)

C2_RouteVisitsEachOnce ==
  Returned =>
    LET r == RouteIndices
    IN  /\ Len(r) >= 2
        /\ r[1] = 0
        /\ r[Len(r)] = 0
        /\ \A k \in 2 .. Len(r) - 1 : r[k] # 0
        /\ \A v \in 1 .. Len(locations) - 1 :
             Cardinality({k \in 1 .. Len(r) : r[k] = v}) = 1

\* A returned route that does not visit the stops in index order.
C2_Witness ==
  /\ Returned
  /\ RouteIndices[2] # 1
  /\ RouteIndices[Len(RouteIndices) - 1] # Len(locations) - 1

\* C3: a call of solve() with fewer than 9 locations raises the error
\* before the matrix is built or a search is run, returns no route and
\* leaves locations, pickups_deliveries and distance_matrix unchanged; a
\* call with 9 or more locations does not raise it.
C3_InsufficientLocations ==
  [][ (pc = "passengers" /\ cursor = Len(request[1].passengers))
        => /\ Len(locations) < 9
              => /\ result'.kind = "ValueError"
                 /\ UNCHANGED <<locations, pickups_deliveries, distance_matrix>>
                 /\ matrix' = <<>> /\ solution' = <<>>
                 /\ result'.route = <<>> /\ response'.route = <<>>
           /\ Len(locations) >= 9
              => /\ result'.kind # "ValueError"
                 /\ matrix' # <<>> ]_vars

\* solve() raised on a solver holding three passengers.
C3_Witness ==
  /\ pc = "done"
  /\ result.kind = "ValueError"
  /\ Len(pickups_deliveries) = 3

\* C4: after any calls of add_driver_location and add_passenger every
\* recorded pair (p, d) has p # d, both are indices of locations other
\* than 0, no index belongs to two pairs, and the solver holds one
\* location more than twice the number of pairs.
C4_PairsWellFormed ==
  /\ \A q \in 1 .. Len(pickups_deliveries) :
       LET p == pickups_deliveries[q][1]
           d == pickups_deliveries[q][2]
       IN  /\ p # d
           /\ p \in 1 .. Len(locations) - 1
           /\ d \in 1 .. Len(locations) - 1
           /\ \A o \in 1 .. Len(pickups_deliveries) :
                o # q => {p, d} \cap {pickups_deliveries[o][1], pickups_deliveries[o][2]} = {}
  /\ locations # <<>> => Len(locations) = 1 + 2 * Len(pickups_deliveries)

\* C5 as stated: the returned route list of a k-passenger instance has
\* 1 + 2k entries (9 for four passengers).
C5_RouteLengthStated ==
  Returned => Len(result.route) = 1 + 2 * Len(pickups_deliveries)

\* C5 amended: the returned route list of a k-passenger instance has
\* 2 + 2k entries, one per location plus the closing depot entry (10 for
\* four passengers).
C5_RouteLength ==
  Returned =>
    /\ Len(result.route) = 2 + 2 * Len(pickups_deliveries)
    /\ Len(result.route) = Len(locations) + 1
    /\ response.status = 200 /\ response.route = result.route

\* A route was returned for a four-passenger instance.
C5_Witness ==
  /\ Returned
  /\ Len(pickups_deliveries) = 4
  /\ Len(result.route) = 10

\* C6: the table returned for N locations is N x N, symmetric after
\* truncation, zero on the diagonal and non-negative.
C6_MatrixWellFormed ==
  pc = "matrixdone" =>
    LET N == Len(locations)
    IN  /\ Len(matrix) = N
        /\ \A i \in 1 .. N :
             /\ Len(matrix[i]) = N
             /\ matrix[i][i] = 0
             /\ \A j \in 1 .. N :
                  /\ matrix[i][j] = matrix[j][i]
                  /\ matrix[i][j] >= 0

\* A 3 x 3 table with an entry that truncation changed (sqrt(2) * 111).
C6_Witness ==
  /\ pc = "matrixdone"
  /\ Len(matrix) = 3
  /\ matrix[1][2] = 156
  /\ matrix[2][3] > 0

\* The tag rule of the specification, by membership instead of by scan.
TagRule(i) ==
  IF i = 0 THEN "driver"
  ELSE IF \E q \in 1 .. Len(pickups_deliveries) : pickups_deliveries[q][1] = i
       THEN "pickup"
  ELSE IF \E q \in 1 .. Len(pickups_deliveries) : pickups_deliveries[q][2] = i
       THEN "dropoff"
  ELSE "unknown"

\* C8: every entry of the returned route and of the returned listing has
\* the tag of the rule and none is `unknown`; the listing holds every
\* location once, in increasing index order, with its coordinate.
C8_Tags ==
  Returned =>
    /\ \A k \in 1 .. Len(result.route) :
         LET e == result.route[k]
         IN  /\ e.type = TagRule(e.index)
             /\ e.type # "unknown"
             /\ e.location = At(locations, e.index)
    /\ Len(result.locations) = Len(locations)
    /\ \A k \in 1 .. Len(result.locations) :
         LET e == result.locations[k]
         IN  /\ e.index = k - 1
             /\ e.location = locations[k]
             /\ e.type = TagRule(e.index)
             /\ e.type # "unknown"

\* A returned route in which a dropoff is directly followed by a pickup.
C8_Witness ==
  /\ Returned
  /\ \E k \in 1 .. Len(result.route) - 1 :
       /\ result.route[k].type = "dropoff"
       /\ result.route[k + 1].type = "pickup"

\* C9: a request gets no response before it ends and then exactly one of:
\* the route (solve() returned a solution), "No solution found" (solve()
\* returned None), or the error response (validation or parsing raised);
\* the two failure responses carry an error and no route.
C9_Outcomes ==
  /\ pc # "done" => response = NoResponse
  /\ pc = "done" =>
       /\ response.status \in {200, 400, 500}
       /\ response.status = 200 <=> result.kind = "solution"
       /\ response.status = 400 <=> result.kind = "None"
       /\ response.status = 500 <=> result.kind \in {"ValueError", "pending"}
       /\ response.status = 200 =>
            /\ response.keys = {"route", "locations"}
            /\ response.route = result.route /\ response.route # <<>>
       /\ response.status = 400 =>
            /\ response.error = "No solution found"
            /\ response.keys = {"error"}
            /\ response.route = <<>> /\ response.locations = <<>>
       /\ response.status = 500 =>
            /\ response.error = "Server error"
            /\ response.keys = {"error"}
            /\ response.route = <<>> /\ response.locations = <<>>

\* Parsing raised on a record without `dropoff` after four passengers had
\* been added.
C9_Witness ==
  /\ pc = "done"
  /\ response.status = 500
  /\ result.kind = "pending"
  /\ Len(locations) = 9

====
